---- MODULE Spec2Model ----
(***************************************************************************)
(* PumpFunds: the three scheduler jobs (SIP processing, trader-wallet       *)
(* monitoring, cleanup of old trades) and the investment and fund routes   *)
(* that share their store.                                                 *)
(*                                                                         *)
(* The store is the relational database behind query(): one statement is   *)
(* one atomic step.  Timestamps are counted in seconds (the code counts    *)
(* milliseconds; the factor 1000 is dropped so that thirty days fit the    *)
(* model checker's integers).  The statements are modelled with the        *)
(* columns they name taken to exist, and with the constraints the          *)
(* migrations declare (CHECK, NOT NULL, REFERENCES).                       *)
(***************************************************************************)
EXTENDS Integers, FiniteSets, Sequences, TLC

VARIABLES now, funds, investments, ledger, nextTradeId, run, hist,
          nextInvestmentId, deleting, monitor, sweeper, server, pool, setup

vars == <<now, funds, investments, ledger, nextTradeId, run, hist,
          nextInvestmentId, deleting, monitor, sweeper, server, pool, setup>>

----------------------------------------------------------------------------
(* Bounds of the model *)

MaxInvestments == 1      \* investment rows created while the routes are in play
MaxBatch == 2            \* investment rows where a job has to go through several
MaxTicks == 2            \* clock steps of one day
MaxWaits == 4            \* clock steps of ninety days
MaxTrades == 1           \* ledger rows after which no further monitor tick is followed up
MaxCalls == 2            \* query() calls followed per caller

----------------------------------------------------------------------------
(* Values *)

NULL == -1               \* SQL NULL / JavaScript null in a timestamp or id place

NoFrequency == "null"    \* frequency || null

DAY == 24 * 60 * 60      \* 24 * 60 * 60 * 1000 ms, in seconds

StartDay == 118          \* the clock starts on 1970-04-29 (day 118 after the epoch)

StartTime == StartDay * DAY

Frequencies == {"daily", "weekly", "monthly"}

UserIds == {1}

\* the authenticated users who send requests about investments: the owners and one
\* user who owns none
Requesters == UserIds \cup {2}

FundIds == {1}

Amounts == {100}

Runs == {1, 2}           \* processSIPInvestments invocations that may be in flight

InvestmentIds == DOMAIN investments

----------------------------------------------------------------------------
(* Calendar arithmetic of Date.setMonth (UTC) *)

IsLeap(y) == (y % 4 = 0 /\ y % 100 # 0) \/ y % 400 = 0

MonthLen(y, m) ==
  IF m = 2 THEN (IF IsLeap(y) THEN 29 ELSE 28)
  ELSE IF m \in {4, 6, 9, 11} THEN 30 ELSE 31

RECURSIVE DaysInMonthOf(_, _, _)
\* length of the month that holds the day d days after the first of month m of year y
DaysInMonthOf(d, y, m) ==
  IF d < MonthLen(y, m) THEN MonthLen(y, m)
  ELSE DaysInMonthOf(d - MonthLen(y, m),
                     IF m = 12 THEN y + 1 ELSE y,
                     IF m = 12 THEN 1 ELSE m + 1)

\* nextMonth.setMonth(nextMonth.getMonth() + 1): the same day-of-month one month
\* later, a day past the end of that month overflowing into the month after it;
\* either way the instant moves by the length of the current month.
SetMonthPlusOne(t) == t + DaysInMonthOf(t \div DAY, 1970, 1) * DAY

----------------------------------------------------------------------------
(* Schedule arithmetic *)

\* faulty variant: every period one day short
NextExecution_Short(frequency, t) ==
  CASE frequency = "daily" -> t
    [] frequency = "weekly" -> t + 6 * DAY
    [] frequency = "monthly" -> t + 29 * DAY
    [] OTHER -> NULL

\* faulty variant: monthly as the resume route computes it, by calendar month
NextExecution_CalendarMonth(frequency, t) ==
  CASE frequency = "daily" -> t + DAY
    [] frequency = "weekly" -> t + 7 * DAY
    [] frequency = "monthly" -> SetMonthPlusOne(t)
    [] OTHER -> NULL

\* faulty variant: the default branch computes a day instead of returning
NextExecution_DefaultDaily(frequency, t) ==
  CASE frequency = "daily" -> t + DAY
    [] frequency = "weekly" -> t + 7 * DAY
    [] frequency = "monthly" -> t + 30 * DAY
    [] OTHER -> t + DAY

\* variant: the switch without its case 'daily'
NextExecution_NoDaily(frequency, t) ==
  CASE frequency = "weekly" -> t + 7 * DAY
    [] frequency = "monthly" -> t + 30 * DAY
    [] OTHER -> NULL

\* processIndividualSIP: switch (investment.frequency); NULL is the default branch
NextExecution(frequency, t) ==
  CASE frequency = "daily" -> t + DAY
    [] frequency = "weekly" -> t + 7 * DAY
    [] frequency = "monthly" -> t + 30 * DAY
    [] OTHER -> NULL

\* PATCH /:id/resume: getNextExecutionDate
GetNextExecutionDate(frequency, t) ==
  CASE frequency = "daily" -> t + DAY
    [] frequency = "weekly" -> t + 7 * DAY
    [] frequency = "monthly" -> SetMonthPlusOne(t)
    [] OTHER -> t + DAY

\* POST /: type === 'sip' ? new Date(Date.now() + 24h) : null
InitialExecutionDate(type, t) == IF type = "sip" THEN t + DAY ELSE NULL

----------------------------------------------------------------------------
(* The store *)

\* CHECK (status IN ('active', 'inactive', 'paused')) of funds
FundStatusCheck(s) == s \in {"active", "inactive", "paused"}

\* trade_replications: tx_signature TEXT NOT NULL, investment_id REFERENCES investments
TradeInsertAccepted(row, invs) ==
  /\ row.tx_signature # "null"
  /\ row.investment_id \in DOMAIN invs
  /\ row.fund_id \in DOMAIN funds

\* a row of trade_replications as INSERT builds it: id SERIAL, executed_at DEFAULT NOW(),
\* status and type as given
TradeRow(investment_id, fund_id, amount, type, status, sig, trade_type) ==
  [id |-> nextTradeId, investment_id |-> investment_id, fund_id |-> fund_id,
   amount |-> amount, type |-> type, status |-> status, tx_signature |-> sig,
   trade_type |-> trade_type, executed_at |-> now]

\* generateMockTransactionSignature: 88 random characters
Signatures == {"sig"}

\* faulty variant: the due-SIP query without AND i.status = 'active'
IsDue_AnyStatus(i) ==
  /\ investments[i].type = "sip"
  /\ investments[i].next_execution_date # NULL
  /\ investments[i].next_execution_date <= now
  /\ investments[i].fund_id \in DOMAIN funds
  /\ funds[investments[i].fund_id].status = "active"

\* faulty variant: the due-SIP query without AND f.status = 'active'
IsDue_AnyFund(i) ==
  /\ investments[i].type = "sip"
  /\ investments[i].next_execution_date # NULL
  /\ investments[i].next_execution_date <= now
  /\ investments[i].status = "active"

\* the WHERE clause of the due-SIP query, for the investment with id i
IsDue(i) ==
  /\ investments[i].type = "sip"
  /\ investments[i].next_execution_date # NULL
  /\ investments[i].next_execution_date <= now
  /\ investments[i].fund_id \in DOMAIN funds
  /\ funds[investments[i].fund_id].status = "active"
  /\ investments[i].status = "active"

\* result.rows of the due-SIP query: i.* of every due investment
DueRows ==
  {[id |-> i,
    user_id |-> investments[i].user_id,
    fund_id |-> investments[i].fund_id,
    amount |-> investments[i].amount,
    frequency |-> investments[i].frequency,
    next_execution_date |-> investments[i].next_execution_date] :
     i \in {j \in InvestmentIds : IsDue(j)}}

----------------------------------------------------------------------------
(* Scheduler runs *)

IdleRun == [pc |-> "idle", rows |-> {}, todo |-> {}, cur |-> 0, nextExecution |-> NULL]

NoItem == [id |-> 0, status |-> "none", updated |-> FALSE, inserted |-> FALSE,
           ended |-> FALSE]

\* history of a run: what the store held when the run selected, and what the run did
NoHist == [base |-> 0, overduePaused |-> {}, advanced |-> {}, failed |-> {},
           item |-> NoItem]

RowOf(w, i) == CHOOSE r \in run[w].rows : r.id = i

\* monitorTraderWallets when no invocation is in flight.  funds: the selected funds
\* still to visit; cur: the fund in hand; rows, todo: the investments selected
\* for it and those still to insert for; base, others: the ledger position and the
\* fund's investments that were not active when they were selected (history)
IdleMonitor == [pc |-> "idle", funds |-> {}, cur |-> 0, rows |-> {}, todo |-> {},
                base |-> 0, others |-> {}, failed |-> FALSE]

\* cleanupOldTrades when no invocation is in flight.  deleted: result.rows.length
\* of the last DELETE; at: the clock reading of that DELETE (history)
IdleSweeper == [pc |-> "idle", deleted |-> 0, failed |-> FALSE, at |-> NULL]

\* startServer before its first statement.  database: the pool exists and its
\* test connection succeeded; scheduler: the three cron jobs are registered;
\* listening: app.listen has been called
Booting == [pc |-> "init", database |-> FALSE, scheduler |-> FALSE,
            listening |-> FALSE]

\* startServer after app.listen
Serving == [pc |-> "serving", database |-> TRUE, scheduler |-> TRUE,
            listening |-> TRUE]

\* the callers of query() that are followed: the three jobs
Callers == {"sip", "monitor", "cleanup"}

\* a caller with no query() call in progress.  calls: the calls begun so far;
\* held: the pool clients the caller has checked out and not released;
\* statements, released: client.query and client.release calls of the last call;
\* threw: client.query of the last call rejected
NoQuery == [pc |-> "idle", calls |-> 0, held |-> 0, statements |-> 0,
            released |-> 0, threw |-> FALSE]

IdlePool == [c \in Callers |-> NoQuery]

\* the requests to GET /setup/database that are followed
Requests == {1, 2, 3}

SetupSteps == {"runMigrations", "seedDatabase", "verifySetup"}

\* the module of the setup route when it is loaded: let setupInProgress = false,
\* let setupCompleted = false.  pc: where each request's handler stands; answer:
\* the status of the response it got last; done: the steps the latest run has
\* finished
NoSetup == [inProgress |-> FALSE, completed |-> FALSE,
            pc |-> [r \in Requests |-> "idle"],
            answer |-> [r \in Requests |-> "none"],
            done |-> {}]

\* the store after the migrations and the seed: the funds with their trader
\* wallets, no investment, no trade; no job is running
Init ==
  /\ now = StartTime
  /\ funds = [f \in FundIds |-> [status |-> "active", trader_wallet |-> "wallet"]]
  /\ investments = <<>>
  /\ ledger = {}
  /\ nextTradeId = 1
  /\ nextInvestmentId = 1
  /\ run = [w \in Runs |-> IdleRun]
  /\ hist = [w \in Runs |-> NoHist]
  /\ deleting = {}
  /\ monitor = IdleMonitor
  /\ sweeper = IdleSweeper
  /\ server = Serving
  /\ pool = IdlePool
  /\ setup = NoSetup

\* investments rows of recurring investments as the schema admits them: frequency
\* is nullable and no constraint ties it to type
StoredRows(frequencies) ==
  [user_id : UserIds, fund_id : FundIds, type : {"sip"}, amount : Amounts,
   frequency : frequencies, status : {"active"},
   next_execution_date : {StartTime}]

\* a store that already holds up to max recurring investments, due now
Stored(max, frequencies) ==
  /\ now = StartTime
  /\ funds = [f \in FundIds |-> [status |-> "active", trader_wallet |-> "wallet"]]
  /\ \E n \in 0..max :
       /\ investments \in [1..n -> StoredRows(frequencies)]
       /\ nextInvestmentId = n + 1
  /\ ledger = {}
  /\ nextTradeId = 1
  /\ run = [w \in Runs |-> IdleRun]
  /\ hist = [w \in Runs |-> NoHist]
  /\ deleting = {}
  /\ monitor = IdleMonitor
  /\ sweeper = IdleSweeper

\* the stored investments when the jobs start
InitStored(max, frequencies) ==
  /\ Stored(max, frequencies)
  /\ server = Serving
  /\ pool = IdlePool
  /\ setup = NoSetup

----------------------------------------------------------------------------
(* The clock *)

Tick ==
  /\ now < StartTime + MaxTicks * DAY
  /\ now' = now + DAY
  /\ UNCHANGED <<funds, investments, ledger, nextTradeId, run, hist,
                  nextInvestmentId, deleting, monitor, sweeper,
                  server, pool, setup>>

\* ninety days pass
Wait ==
  /\ now + 90 * DAY <= StartTime + (MaxTicks + MaxWaits * 90) * DAY
  /\ now' = now + 90 * DAY
  /\ UNCHANGED <<funds, investments, ledger, nextTradeId, run, hist,
                  nextInvestmentId, deleting, monitor, sweeper,
                  server, pool, setup>>

----------------------------------------------------------------------------
(* Investment routes *)

\* INSERT INTO investments ... RETURNING *: the row gets the next id of the SERIAL
InsertInvestment(invs, id, row) ==
  [i \in DOMAIN invs \cup {id} |-> IF i = id THEN row ELSE invs[i]]

\* POST /: the fund is active and within limits, frequency is given for a SIP.
\* The lumpsum ledger INSERT names no tx_signature: when the store rejects it the
\* handler answers 500 and the investment row stays.
CreateInvestment(userId, fund_id, amount, type, frequency) ==
  LET id == nextInvestmentId
      row == TradeRow(id, fund_id, amount, "investment", "completed", "null", "null")
      created == InsertInvestment(investments, id,
                    [user_id |-> userId, fund_id |-> fund_id, type |-> type,
                     amount |-> amount, frequency |-> frequency, status |-> "active",
                     next_execution_date |-> InitialExecutionDate(type, now)])
  IN /\ fund_id \in DOMAIN funds /\ funds[fund_id].status = "active"
     /\ ~(type = "sip" /\ frequency = NoFrequency)
     /\ investments' = created
     /\ nextInvestmentId' = nextInvestmentId + 1
     /\ IF type = "lumpsum" /\ TradeInsertAccepted(row, created)
        THEN ledger' = ledger \cup {row} /\ nextTradeId' = nextTradeId + 1
        ELSE UNCHANGED <<ledger, nextTradeId>>
     /\ UNCHANGED <<now, funds, run, hist, deleting, monitor, sweeper,
                  server, pool, setup>>

\* the fields PATCH /:id/pause sets on the row it matched
Paused(inv) == [inv EXCEPT !.status = "paused"]

\* WHERE id = $1 AND user_id = $2 AND type = 'sip' AND status = 'active'
PauseMatches(invs, investmentId, userId) ==
  /\ investmentId \in DOMAIN invs
  /\ invs[investmentId].user_id = userId
  /\ invs[investmentId].type = "sip"
  /\ invs[investmentId].status = "active"

\* the status of the response of PATCH /:id/pause: 404 when the UPDATE returns
\* no row
PauseStatus(investmentId, userId) ==
  IF PauseMatches(investments, investmentId, userId) THEN 200 ELSE 404

\* PATCH /:id/pause
PauseInvestment(investmentId, userId) ==
  /\ PauseStatus(investmentId, userId) = 200
  /\ investments' = [investments EXCEPT ![investmentId] = Paused(@)]
  /\ UNCHANGED <<now, funds, ledger, nextTradeId, run, hist,
                  nextInvestmentId, deleting, monitor, sweeper,
                  server, pool, setup>>

\* SELECT frequency FROM investments WHERE id = $1 AND user_id = $2 AND type = 'sip'
ResumeFound(invs, investmentId, userId) ==
  /\ investmentId \in DOMAIN invs
  /\ invs[investmentId].user_id = userId
  /\ invs[investmentId].type = "sip"

\* variant: the UPDATE with WHERE id = $2 AND user_id = $3 only
ResumeMatches_AnyStatus(invs, investmentId, userId) ==
  /\ investmentId \in DOMAIN invs
  /\ invs[investmentId].user_id = userId

\* variant: the UPDATE with status != 'active' in place of status = 'paused'
ResumeMatches_NotActive(invs, investmentId, userId) ==
  /\ investmentId \in DOMAIN invs
  /\ invs[investmentId].user_id = userId
  /\ invs[investmentId].type = "sip"
  /\ invs[investmentId].status # "active"

\* WHERE id = $1 AND user_id = $2 AND type = 'sip' AND status = 'paused'
ResumeMatches(invs, investmentId, userId) ==
  /\ investmentId \in DOMAIN invs
  /\ invs[investmentId].user_id = userId
  /\ invs[investmentId].type = "sip"
  /\ invs[investmentId].status = "paused"

\* the status of the response of PATCH /:id/resume: 404 when the SELECT or the
\* UPDATE returns no row
ResumeStatus(investmentId, userId) ==
  IF ~ResumeFound(investments, investmentId, userId) THEN 404
  ELSE IF ~ResumeMatches(investments, investmentId, userId) THEN 404
  ELSE 200

\* PATCH /:id/resume: SELECT frequency, then UPDATE ... WHERE status = 'paused'
ResumeInvestment(investmentId, userId) ==
  /\ ResumeStatus(investmentId, userId) = 200
  /\ investments' = [investments EXCEPT ![investmentId] =
       [@ EXCEPT !.status = "active",
                 !.next_execution_date =
                    GetNextExecutionDate(investments[investmentId].frequency, now)]]
  /\ UNCHANGED <<now, funds, ledger, nextTradeId, run, hist,
                  nextInvestmentId, deleting, monitor, sweeper,
                  server, pool, setup>>

\* WHERE id = $1 AND user_id = $2 AND status IN ('active', 'paused')
CancelMatches(invs, investmentId, userId) ==
  /\ investmentId \in DOMAIN invs
  /\ invs[investmentId].user_id = userId
  /\ invs[investmentId].status \in {"active", "paused"}

\* the status of the response of DELETE /:id: 404 when the UPDATE returns no row
CancelStatus(investmentId, userId) ==
  IF CancelMatches(investments, investmentId, userId) THEN 200 ELSE 404

\* DELETE /:id
CancelInvestment(investmentId, userId) ==
  /\ CancelStatus(investmentId, userId) = 200
  /\ investments' = [investments EXCEPT ![investmentId].status = "cancelled"]
  /\ UNCHANGED <<now, funds, ledger, nextTradeId, run, hist,
                  nextInvestmentId, deleting, monitor, sweeper,
                  server, pool, setup>>

\* PUT /api/funds/:id with a status field (validator: active, paused, closed)
UpdateFund(fundId, status) ==
  /\ fundId \in DOMAIN funds
  /\ FundStatusCheck(status)
  /\ funds[fundId].status # status
  /\ funds' = [funds EXCEPT ![fundId].status = status]
  /\ UNCHANGED <<now, investments, ledger, nextTradeId, run, hist,
                  nextInvestmentId, deleting, monitor, sweeper,
                  server, pool, setup>>

----------------------------------------------------------------------------
(* processSIPInvestments / processIndividualSIP *)

\* the run after the item i has been left (normally or by return): next loop
\* iteration, or "SIP processing completed"
AfterItem(w, i) ==
  [run[w] EXCEPT !.todo = @ \ {i}, !.cur = 0, !.nextExecution = NULL,
                 !.pc = IF run[w].todo \ {i} = {} THEN "done" ELSE "loop"]

\* faulty variant: no catch inside the for loop, the throw ends the whole run
AfterThrow_Abort(w, i) ==
  [run[w] EXCEPT !.pc = "done", !.cur = 0, !.nextExecution = NULL]

\* the run after processIndividualSIP(i) threw: the catch inside the for loop
\* logs and the loop goes on
AfterThrow(w, i) == AfterItem(w, i)

\* ids of the SIPs that are overdue but paused (kept for the history of a run)
OverduePaused ==
  {i \in InvestmentIds : /\ investments[i].type = "sip"
                         /\ investments[i].status = "paused"
                         /\ investments[i].next_execution_date # NULL
                         /\ investments[i].next_execution_date <= now}

\* the due-SIP SELECT, and the early return when nothing is due
ProcessSIPInvestments_Select(w) ==
  /\ server.scheduler
  /\ run[w].pc = "idle"
  /\ run' = [run EXCEPT ![w] =
       [pc |-> IF DueRows = {} THEN "done" ELSE "loop", rows |-> DueRows,
        todo |-> {r.id : r \in DueRows}, cur |-> 0, nextExecution |-> NULL]]
  /\ hist' = [hist EXCEPT ![w] =
       [base |-> nextTradeId, overduePaused |-> OverduePaused, advanced |-> {},
        failed |-> {}, item |-> NoItem]]
  /\ UNCHANGED <<now, funds, investments, ledger, nextTradeId,
                  nextInvestmentId, deleting, monitor, sweeper,
                  server, pool, setup>>

\* faulty variant: the UPDATE matches no row
SetNextExecutionDate_Lost(invs, id, nextExecution) == invs

\* variant: the UPDATE sets status = 'active' as well
SetNextExecutionDate_Reactivates(invs, id, nextExecution) ==
  IF id \in DOMAIN invs
  THEN [invs EXCEPT ![id].next_execution_date = nextExecution,
                    ![id].status = "active"]
  ELSE invs

\* UPDATE investments SET next_execution_date = $1 WHERE id = $2
SetNextExecutionDate(invs, id, nextExecution) ==
  IF id \in DOMAIN invs
  THEN [invs EXCEPT ![id].next_execution_date = nextExecution]
  ELSE invs

\* variant: the period is counted from the date the investment was due
ExecutionBase_Scheduled(r, clock) == r.next_execution_date

\* const now = new Date(): the period is counted from the clock reading of the
\* execution, whatever date the selected row r carried
ExecutionBase(r, clock) == clock

\* processIndividualSIP up to its first store write: the clock is read, the
\* frequency switch computes nextExecution (or returns), the UPDATE is applied
ProcessIndividualSIP_Update(w) ==
  /\ run[w].pc = "loop"
  /\ \E i \in run[w].todo :
       LET nextExecution == NextExecution(RowOf(w, i).frequency, ExecutionBase(RowOf(w, i), now))
           status == IF i \in InvestmentIds THEN investments[i].status ELSE "none"
       IN IF nextExecution = NULL
          THEN /\ run' = [run EXCEPT ![w] = AfterItem(w, i)]
               /\ hist' = [hist EXCEPT ![w].item =
                    [id |-> i, status |-> status, updated |-> FALSE,
                     inserted |-> FALSE, ended |-> TRUE]]
               /\ UNCHANGED investments
          ELSE /\ investments' = SetNextExecutionDate(investments, i, nextExecution)
               /\ run' = [run EXCEPT ![w].pc = "insert", ![w].cur = i,
                                     ![w].nextExecution = nextExecution]
               /\ hist' = [hist EXCEPT ![w].advanced = @ \cup {i},
                                       ![w].item =
                    [id |-> i, status |-> status, updated |-> TRUE,
                     inserted |-> FALSE, ended |-> FALSE]]
  /\ UNCHANGED <<now, funds, ledger, nextTradeId,
                  nextInvestmentId, deleting, monitor, sweeper,
                  server, pool, setup>>

\* faulty variant: the row is left at the column default 'pending'
SipExecutionRow_Pending(r, sig) ==
  TradeRow(r.id, r.fund_id, r.amount, "sip_execution", "pending", sig, "buy")

\* the ledger row processIndividualSIP inserts for the selected row r
SipExecutionRow(r, sig) ==
  TradeRow(r.id, r.fund_id, r.amount, "sip_execution", "completed", sig, "buy")

\* generateMockTransactionSignature and the INSERT INTO trade_replications
ProcessIndividualSIP_Insert(w) ==
  /\ run[w].pc = "insert"
  /\ \E sig \in Signatures :
       LET i == run[w].cur
           row == SipExecutionRow(RowOf(w, i), sig)
       IN IF TradeInsertAccepted(row, investments)
          THEN /\ ledger' = ledger \cup {row}
               /\ nextTradeId' = nextTradeId + 1
               /\ run' = [run EXCEPT ![w] = AfterItem(w, i)]
               /\ hist' = [hist EXCEPT ![w].item.inserted = TRUE,
                                       ![w].item.ended = TRUE]
          ELSE /\ run' = [run EXCEPT ![w] = AfterThrow(w, i)]
               /\ hist' = [hist EXCEPT ![w].item.ended = TRUE,
                                       ![w].failed = @ \cup {i}]
               /\ UNCHANGED <<ledger, nextTradeId>>
  /\ UNCHANGED <<now, funds, investments,
                  nextInvestmentId, deleting, monitor, sweeper,
                  server, pool, setup>>

\* the invocation returns; the next cron tick may start a run
ProcessSIPInvestments_Return(w) ==
  /\ run[w].pc = "done"
  /\ run' = [run EXCEPT ![w] = IdleRun]
  /\ hist' = [hist EXCEPT ![w] = NoHist]
  /\ UNCHANGED <<now, funds, investments, ledger, nextTradeId,
                  nextInvestmentId, deleting, monitor, sweeper,
                  server, pool, setup>>

----------------------------------------------------------------------------
(* monitorTraderWallets / monitorFundTraderWallets *)

\* Math.random() * 0.1 as a percentage: a draw from 0 up to, not including, 10
SharePercents == {9}

\* parseFloat(investment.amount) * (Math.random() * 0.1)
TradeAmount(amount, percent) == (amount * percent) \div 100

\* Math.random() > 0.5 ? 'buy' : 'sell'
TradeTypes == {"buy", "sell"}

\* SELECT id, name, trader_wallet FROM funds WHERE status = 'active'
\* AND trader_wallet IS NOT NULL AND trader_wallet != ''
MonitoredFunds ==
  {f \in DOMAIN funds : /\ funds[f].status = "active"
                        /\ funds[f].trader_wallet # "null"
                        /\ funds[f].trader_wallet # ""}

\* faulty variant: the investments of the fund whatever their status
IsActiveIn_AnyStatus(i, f) ==
  /\ investments[i].fund_id = f
  /\ f \in DOMAIN funds
  /\ funds[f].status = "active"

\* WHERE f.id = $1 AND f.status = 'active' AND i.status = 'active'
IsActiveIn(i, f) ==
  /\ investments[i].fund_id = f
  /\ f \in DOMAIN funds
  /\ funds[f].status = "active"
  /\ investments[i].status = "active"

\* investments.rows of monitorFundTraderWallets: i.id, i.user_id, i.amount, i.type
ActiveInvestmentRows(f) ==
  {[id |-> i,
    user_id |-> investments[i].user_id,
    amount |-> investments[i].amount,
    type |-> investments[i].type] :
     i \in {j \in InvestmentIds : IsActiveIn(j, f)}}

\* the monitor after the fund in hand has been left (normally or through the
\* catch inside the loop over the funds): next fund, or "monitoring completed"
MonitorAfterFund(m) ==
  [m EXCEPT !.pc = IF m.funds = {} THEN "done" ELSE "funds"]

\* the monitor after a store call threw: the catch logs and the loop over the
\* funds goes on
MonitorCaught(m) == [MonitorAfterFund(m) EXCEPT !.failed = TRUE]

\* the SELECT of the funds to monitor
MonitorTraderWallets_Select ==
  /\ server.scheduler
  /\ monitor.pc = "idle"
  /\ nextTradeId <= MaxTrades
  /\ monitor' = MonitorAfterFund([IdleMonitor EXCEPT !.funds = MonitoredFunds])
  /\ UNCHANGED <<now, funds, investments, ledger, nextTradeId, run, hist,
                  nextInvestmentId, deleting, sweeper,
                  server, pool, setup>>

\* monitorFundTraderWallets(fund) when shouldCreateMockTrade is false
MonitorFundTraderWallets_Skip ==
  /\ monitor.pc = "funds"
  /\ \E f \in monitor.funds :
       monitor' = MonitorAfterFund([monitor EXCEPT !.funds = @ \ {f}])
  /\ UNCHANGED <<now, funds, investments, ledger, nextTradeId, run, hist,
                  nextInvestmentId, deleting, sweeper,
                  server, pool, setup>>

\* monitorFundTraderWallets(fund) when shouldCreateMockTrade is true: the SELECT
\* of the fund's active investments
MonitorFundTraderWallets_Select ==
  /\ monitor.pc = "funds"
  /\ \E f \in monitor.funds :
       LET rows == ActiveInvestmentRows(f)
           m == [monitor EXCEPT !.funds = @ \ {f}, !.cur = f, !.rows = rows,
                                !.todo = {r.id : r \in rows},
                                !.base = nextTradeId,
                                !.others = {i \in InvestmentIds :
                                              /\ investments[i].fund_id = f
                                              /\ investments[i].status # "active"}]
       IN monitor' = IF rows = {} THEN MonitorAfterFund(m)
                     ELSE [m EXCEPT !.pc = "insert"]
  /\ UNCHANGED <<now, funds, investments, ledger, nextTradeId, run, hist,
                  nextInvestmentId, deleting, sweeper,
                  server, pool, setup>>

\* the ledger row monitorFundTraderWallets inserts for the selected row r
TradeReplicationRow(r, fund_id, percent, sig, trade_type) ==
  TradeRow(r.id, fund_id, TradeAmount(r.amount, percent), "trade_replication",
           "completed", sig, trade_type)

\* one iteration of the loop over investments.rows: the INSERT
MonitorFundTraderWallets_Insert ==
  /\ monitor.pc = "insert"
  /\ \E i \in monitor.todo, percent \in SharePercents, sig \in Signatures,
        trade_type \in TradeTypes :
       LET r == CHOOSE x \in monitor.rows : x.id = i
           row == TradeReplicationRow(r, monitor.cur, percent, sig, trade_type)
           m == [monitor EXCEPT !.todo = @ \ {i}]
       IN IF TradeInsertAccepted(row, investments)
          THEN /\ ledger' = ledger \cup {row}
               /\ nextTradeId' = nextTradeId + 1
               /\ monitor' = IF m.todo = {} THEN MonitorAfterFund(m) ELSE m
          ELSE /\ monitor' = MonitorCaught(monitor)
               /\ UNCHANGED <<ledger, nextTradeId>>
  /\ UNCHANGED <<now, funds, investments, run, hist,
                  nextInvestmentId, deleting, sweeper,
                  server, pool, setup>>

\* the invocation returns; the next cron tick may start one
MonitorTraderWallets_Return ==
  /\ monitor.pc = "done"
  /\ monitor' = IdleMonitor
  /\ UNCHANGED <<now, funds, investments, ledger, nextTradeId, run, hist,
                  nextInvestmentId, deleting, sweeper,
                  server, pool, setup>>

----------------------------------------------------------------------------
(* cleanupOldTrades *)

\* INTERVAL '90 days'
Horizon == 90 * DAY

\* faulty variant: executed_at <= NOW() - INTERVAL '90 days'
Expired_Inclusive(t, clock) == t.executed_at <= clock - Horizon

\* WHERE executed_at < NOW() - INTERVAL '90 days'
Expired(t, clock) == t.executed_at < clock - Horizon

\* faulty variant: DELETE ... LIMIT 1, the oldest expired row only
AfterCleanup_OneRow(trades, clock) ==
  LET old == {t \in trades : Expired(t, clock)}
  IN IF old = {} THEN trades
     ELSE trades \ {CHOOSE t \in old : \A u \in old : t.id <= u.id}

\* trade_replications after DELETE FROM trade_replications WHERE ...
AfterCleanup(trades, clock) == {t \in trades : ~Expired(t, clock)}

\* faulty variant: no catch, the throw leaves the invocation as a rejected promise
CleanupCaught_Uncaught(s) == [s EXCEPT !.pc = "uncaught", !.failed = TRUE]

\* the sweeper after the DELETE threw: the catch logs
CleanupCaught(s) == [s EXCEPT !.pc = "done", !.failed = TRUE]

\* the DELETE ... RETURNING id and the log of result.rows.length
CleanupOldTrades_Delete ==
  /\ server.scheduler
  /\ sweeper.pc = "idle"
  /\ ledger' = AfterCleanup(ledger, now)
  /\ sweeper' = [pc |-> "done",
                 deleted |-> Cardinality(ledger) - Cardinality(ledger'),
                 failed |-> FALSE, at |-> now]
  /\ UNCHANGED <<now, funds, investments, nextTradeId, run, hist,
                  nextInvestmentId, deleting, monitor,
                  server, pool, setup>>

\* the invocation returns; the next cron tick may start one
CleanupOldTrades_Return ==
  /\ sweeper.pc = "done"
  /\ sweeper' = [sweeper EXCEPT !.pc = "idle"]
  /\ UNCHANGED <<now, funds, investments, ledger, nextTradeId, run, hist,
                  nextInvestmentId, deleting, monitor,
                  server, pool, setup>>

----------------------------------------------------------------------------
(* Fund administration: DELETE /api/funds/:id *)

\* SELECT COUNT(*) FROM investments WHERE fund_id = $1 AND status = 'active'
ActiveInvestmentCount(fundId) ==
  Cardinality({i \in InvestmentIds : /\ investments[i].fund_id = fundId
                                     /\ investments[i].status = "active"})

\* the check for active investments; with none the handler goes on to the DELETE
DeleteFund_Check(fundId) ==
  /\ fundId \notin deleting
  /\ ActiveInvestmentCount(fundId) = 0
  /\ deleting' = deleting \cup {fundId}
  /\ UNCHANGED <<now, funds, investments, ledger, nextTradeId, run, hist,
                  nextInvestmentId, monitor, sweeper,
                  server, pool, setup>>

\* DELETE FROM funds WHERE id = $1, with ON DELETE CASCADE of investments.fund_id,
\* trade_replications.fund_id and trade_replications.investment_id
DeleteFund_Delete(fundId) ==
  LET kept == {i \in InvestmentIds : investments[i].fund_id # fundId}
  IN /\ fundId \in deleting
     /\ deleting' = deleting \ {fundId}
     /\ funds' = [f \in DOMAIN funds \ {fundId} |-> funds[f]]
     /\ investments' = [i \in kept |-> investments[i]]
     /\ ledger' = {t \in ledger : t.fund_id # fundId /\ t.investment_id \in kept}
     /\ UNCHANGED <<now, nextTradeId, run, hist, nextInvestmentId, monitor, sweeper,
                  server, pool, setup>>

----------------------------------------------------------------------------
(* startServer *)

\* await initDatabase() returns: the pool is created and the test connection
\* was made and released
InitDatabase_Connects ==
  /\ server.pc = "init"
  /\ server' = [server EXCEPT !.pc = "schedule", !.database = TRUE]
  /\ UNCHANGED <<now, funds, investments, ledger, nextTradeId, run, hist,
                  nextInvestmentId, deleting, monitor, sweeper, pool, setup>>

\* variant: the catch of startServer logs and startup goes on
AfterInitFailure_Continue(s) == [s EXCEPT !.pc = "schedule"]

\* catch (error) { ...; process.exit(1) }
AfterInitFailure(s) == [s EXCEPT !.pc = "exited"]

\* initDatabase throws (DATABASE_URL is missing, or the test connection fails)
InitDatabase_Throws ==
  /\ server.pc = "init"
  /\ server' = AfterInitFailure(server)
  /\ UNCHANGED <<now, funds, investments, ledger, nextTradeId, run, hist,
                  nextInvestmentId, deleting, monitor, sweeper, pool, setup>>

\* startSIPScheduler(): the three cron.schedule calls
StartSIPScheduler ==
  /\ server.pc = "schedule"
  /\ server' = [server EXCEPT !.pc = "listen", !.scheduler = TRUE]
  /\ UNCHANGED <<now, funds, investments, ledger, nextTradeId, run, hist,
                  nextInvestmentId, deleting, monitor, sweeper, pool, setup>>

\* app.listen(PORT, '0.0.0.0', ...)
Listen ==
  /\ server.pc = "listen"
  /\ server' = [server EXCEPT !.pc = "serving", !.listening = TRUE]
  /\ UNCHANGED <<now, funds, investments, ledger, nextTradeId, run, hist,
                  nextInvestmentId, deleting, monitor, sweeper, pool, setup>>

----------------------------------------------------------------------------
(* query(): const client = await pool.connect(); try { return await          *)
(* client.query(text, params) } finally { client.release() }                *)

\* pool.connect() resolves with a client
Query_Connect(c) ==
  /\ pool[c].pc = "idle"
  /\ pool[c].calls < MaxCalls
  /\ pool' = [pool EXCEPT ![c] = [pc |-> "try", calls |-> pool[c].calls + 1,
                                  held |-> pool[c].held + 1, statements |-> 0,
                                  released |-> 0, threw |-> FALSE]]
  /\ UNCHANGED <<now, funds, investments, ledger, nextTradeId, run, hist,
                  nextInvestmentId, deleting, monitor, sweeper, server, setup>>

\* pool.connect() rejects: query() throws before the try, no client was handed out
Query_ConnectThrows(c) ==
  /\ pool[c].pc = "idle"
  /\ pool[c].calls < MaxCalls
  /\ pool' = [pool EXCEPT ![c] = [pc |-> "idle", calls |-> pool[c].calls + 1,
                                  held |-> pool[c].held, statements |-> 0,
                                  released |-> 0, threw |-> FALSE]]
  /\ UNCHANGED <<now, funds, investments, ledger, nextTradeId, run, hist,
                  nextInvestmentId, deleting, monitor, sweeper, server, setup>>

\* client.query(text, params) resolves
Query_Statement(c) ==
  /\ pool[c].pc = "try"
  /\ pool' = [pool EXCEPT ![c].pc = "finally", ![c].statements = @ + 1]
  /\ UNCHANGED <<now, funds, investments, ledger, nextTradeId, run, hist,
                  nextInvestmentId, deleting, monitor, sweeper, server, setup>>

\* variant: the release in the try block after the statement, not in a finally
AfterStatementThrows_NoFinally(q) ==
  [q EXCEPT !.pc = "idle", !.statements = @ + 1, !.threw = TRUE]

\* the call after client.query rejected: control passes to the finally block
AfterStatementThrows(q) ==
  [q EXCEPT !.pc = "finally", !.statements = @ + 1, !.threw = TRUE]

\* client.query(text, params) rejects
Query_StatementThrows(c) ==
  /\ pool[c].pc = "try"
  /\ pool' = [pool EXCEPT ![c] = AfterStatementThrows(@)]
  /\ UNCHANGED <<now, funds, investments, ledger, nextTradeId, run, hist,
                  nextInvestmentId, deleting, monitor, sweeper, server, setup>>

\* finally { client.release() }, then the result or the error goes to the caller
Query_Release(c) ==
  /\ pool[c].pc = "finally"
  /\ pool' = [pool EXCEPT ![c].pc = "idle", ![c].held = @ - 1,
                          ![c].released = @ + 1]
  /\ UNCHANGED <<now, funds, investments, ledger, nextTradeId, run, hist,
                  nextInvestmentId, deleting, monitor, sweeper, server, setup>>

----------------------------------------------------------------------------
(* GET /setup/database *)

\* variant: the handler without its first check
SetupBusy_Unchecked(s) == FALSE

\* if (setupInProgress)
SetupBusy(s) == s.inProgress

\* the request is turned away with 429 setup_in_progress
Setup_InProgress(r) ==
  /\ setup.pc[r] = "idle"
  /\ SetupBusy(setup)
  /\ setup' = [setup EXCEPT !.answer[r] = "setup_in_progress"]
  /\ UNCHANGED <<now, funds, investments, ledger, nextTradeId, run, hist,
                  nextInvestmentId, deleting, monitor, sweeper, server, pool>>

\* the request is answered 200 already_completed
Setup_AlreadyCompleted(r) ==
  /\ setup.pc[r] = "idle"
  /\ ~SetupBusy(setup)
  /\ setup.completed
  /\ setup' = [setup EXCEPT !.answer[r] = "already_completed"]
  /\ UNCHANGED <<now, funds, investments, ledger, nextTradeId, run, hist,
                  nextInvestmentId, deleting, monitor, sweeper, server, pool>>

\* both checks pass: setupInProgress = true, and the handler reaches its first await
Setup_Begin(r) ==
  /\ setup.pc[r] = "idle"
  /\ ~SetupBusy(setup)
  /\ ~setup.completed
  /\ setup' = [setup EXCEPT !.inProgress = TRUE, !.pc[r] = "initDatabase",
                            !.answer[r] = "none", !.done = {}]
  /\ UNCHANGED <<now, funds, investments, ledger, nextTradeId, run, hist,
                  nextInvestmentId, deleting, monitor, sweeper, server, pool>>

\* await initDatabase() resolves
Setup_InitDatabase(r) ==
  /\ setup.pc[r] = "initDatabase"
  /\ setup' = [setup EXCEPT !.pc[r] = "runMigrations"]
  /\ UNCHANGED <<now, funds, investments, ledger, nextTradeId, run, hist,
                  nextInvestmentId, deleting, monitor, sweeper, server, pool>>

\* await runMigrations() resolves: CREATE TABLE / INDEX IF NOT EXISTS on a store
\* that has its tables
Setup_RunMigrations(r) ==
  /\ setup.pc[r] = "runMigrations"
  /\ setup' = [setup EXCEPT !.pc[r] = "seedDatabase",
                            !.done = @ \cup {"runMigrations"}]
  /\ UNCHANGED <<now, funds, investments, ledger, nextTradeId, run, hist,
                  nextInvestmentId, deleting, monitor, sweeper, server, pool>>

\* await seedDatabase() resolves: the funds are there by name, ON CONFLICT (name)
\* DO UPDATE rewrites their descriptive columns and leaves status alone
Setup_SeedDatabase(r) ==
  /\ setup.pc[r] = "seedDatabase"
  /\ setup' = [setup EXCEPT !.pc[r] = "verifySetup",
                            !.done = @ \cup {"seedDatabase"}]
  /\ UNCHANGED <<now, funds, investments, ledger, nextTradeId, run, hist,
                  nextInvestmentId, deleting, monitor, sweeper, server, pool>>

\* the handler after its catch block: setupInProgress = false, 500 error
SetupCaught(s, r) ==
  [s EXCEPT !.inProgress = FALSE, !.pc[r] = "idle", !.answer[r] = "error"]

\* await verifySetup(): it throws when no active fund with a wallet is found, and
\* its INSERT of a test row for investment 1 in fund 1 is subject to the
\* constraints of trade_replications; then setupCompleted = true,
\* setupInProgress = false, 200 success
Setup_VerifySetup(r) ==
  LET row == TradeRow(1, 1, 100, "test", "completed", "setup_test", "buy")
  IN /\ setup.pc[r] = "verifySetup"
     /\ IF MonitoredFunds # {} /\ TradeInsertAccepted(row, investments)
        THEN /\ ledger' = ledger \cup {row}
             /\ nextTradeId' = nextTradeId + 1
             /\ setup' = [setup EXCEPT !.inProgress = FALSE, !.completed = TRUE,
                                       !.pc[r] = "idle", !.answer[r] = "success",
                                       !.done = @ \cup {"verifySetup"}]
        ELSE /\ setup' = SetupCaught(setup, r)
             /\ UNCHANGED <<ledger, nextTradeId>>
     /\ UNCHANGED <<now, funds, investments, run, hist,
                     nextInvestmentId, deleting, monitor, sweeper, server, pool>>

\* a store call of initDatabase, runMigrations or seedDatabase throws
Setup_Throws(r) ==
  /\ setup.pc[r] \in {"initDatabase", "runMigrations", "seedDatabase"}
  /\ setup' = SetupCaught(setup, r)
  /\ UNCHANGED <<now, funds, investments, ledger, nextTradeId, run, hist,
                  nextInvestmentId, deleting, monitor, sweeper, server, pool>>

----------------------------------------------------------------------------
(* Store failures and crashes *)

\* the due-SIP SELECT throws: the outer catch logs, the invocation ends
ProcessSIPInvestments_SelectThrows(w) ==
  /\ server.scheduler
  /\ run[w].pc = "idle"
  /\ run' = [run EXCEPT ![w] = [IdleRun EXCEPT !.pc = "done"]]
  /\ hist' = [hist EXCEPT ![w] = [NoHist EXCEPT !.base = nextTradeId]]
  /\ UNCHANGED <<now, funds, investments, ledger, nextTradeId,
                  nextInvestmentId, deleting, monitor, sweeper,
                  server, pool, setup>>

\* the UPDATE of processIndividualSIP throws
ProcessIndividualSIP_UpdateThrows(w) ==
  /\ run[w].pc = "loop"
  /\ \E i \in run[w].todo :
       /\ NextExecution(RowOf(w, i).frequency, ExecutionBase(RowOf(w, i), now)) # NULL
       /\ run' = [run EXCEPT ![w] = AfterThrow(w, i)]
       /\ hist' = [hist EXCEPT ![w].failed = @ \cup {i},
                               ![w].item =
                    [id |-> i,
                     status |-> IF i \in InvestmentIds THEN investments[i].status
                                ELSE "none",
                     updated |-> FALSE, inserted |-> FALSE, ended |-> TRUE]]
  /\ UNCHANGED <<now, funds, investments, ledger, nextTradeId,
                  nextInvestmentId, deleting, monitor, sweeper,
                  server, pool, setup>>

\* the INSERT of processIndividualSIP throws
ProcessIndividualSIP_InsertThrows(w) ==
  /\ run[w].pc = "insert"
  /\ run' = [run EXCEPT ![w] = AfterThrow(w, run[w].cur)]
  /\ hist' = [hist EXCEPT ![w].failed = @ \cup {run[w].cur},
                          ![w].item.ended = TRUE]
  /\ UNCHANGED <<now, funds, investments, ledger, nextTradeId,
                  nextInvestmentId, deleting, monitor, sweeper,
                  server, pool, setup>>

\* the SELECT of the funds to monitor throws: the outer catch logs, the
\* invocation ends
MonitorTraderWallets_SelectThrows ==
  /\ server.scheduler
  /\ monitor.pc = "idle"
  /\ monitor' = [IdleMonitor EXCEPT !.pc = "done", !.failed = TRUE]
  /\ UNCHANGED <<now, funds, investments, ledger, nextTradeId, run, hist,
                  nextInvestmentId, deleting, sweeper,
                  server, pool, setup>>

\* the SELECT of the fund's investments throws
MonitorFundTraderWallets_SelectThrows ==
  /\ monitor.pc = "funds"
  /\ \E f \in monitor.funds :
       monitor' = MonitorCaught([monitor EXCEPT !.funds = @ \ {f}, !.cur = f,
                                                !.rows = {}, !.todo = {},
                                                !.base = nextTradeId,
                                                !.others = {}])
  /\ UNCHANGED <<now, funds, investments, ledger, nextTradeId, run, hist,
                  nextInvestmentId, deleting, sweeper,
                  server, pool, setup>>

\* an INSERT of monitorFundTraderWallets throws: the investments left in the
\* loop get no row
MonitorFundTraderWallets_InsertThrows ==
  /\ monitor.pc = "insert"
  /\ monitor' = MonitorCaught(monitor)
  /\ UNCHANGED <<now, funds, investments, ledger, nextTradeId, run, hist,
                  nextInvestmentId, deleting, sweeper,
                  server, pool, setup>>

\* the DELETE of cleanupOldTrades throws
CleanupOldTrades_DeleteThrows ==
  /\ server.scheduler
  /\ sweeper.pc = "idle"
  /\ sweeper' = CleanupCaught(sweeper)
  /\ UNCHANGED <<now, funds, investments, ledger, nextTradeId, run, hist,
                  nextInvestmentId, deleting, monitor,
                  server, pool, setup>>

\* the process dies while a run is between two statements; the store keeps
\* what was written, the run is gone
Crash ==
  /\ \E w \in Runs : run[w].pc \in {"loop", "insert"}
  /\ run' = [w \in Runs |-> IdleRun]
  /\ hist' = [w \in Runs |->
       IF run[w].pc = "insert" THEN [hist[w] EXCEPT !.item.ended = TRUE]
       ELSE hist[w]]
  /\ UNCHANGED <<now, funds, investments, ledger, nextTradeId,
                  nextInvestmentId, deleting, monitor, sweeper,
                  server, pool, setup>>

----------------------------------------------------------------------------
(* Specifications *)

\* POST / with type sip, while fewer than n investments exist
CreateSIP(n) ==
  /\ nextInvestmentId <= n
  /\ \E u \in UserIds, f \in FundIds, a \in Amounts, q \in Frequencies :
        CreateInvestment(u, f, a, "sip", q)

\* POST / with type sip and frequency daily, while fewer than n investments exist
CreateDailySIP(n) ==
  /\ nextInvestmentId <= n
  /\ \E u \in UserIds, f \in FundIds, a \in Amounts :
        CreateInvestment(u, f, a, "sip", "daily")

\* POST / with type lumpsum, while fewer than n investments exist
CreateLumpsum(n) ==
  /\ nextInvestmentId <= n
  /\ \E u \in UserIds, f \in FundIds, a \in Amounts :
        CreateInvestment(u, f, a, "lumpsum", NoFrequency)

\* a pause, resume or cancel request of some user for some investment
PauseRequest == \E i \in InvestmentIds, u \in Requesters : PauseInvestment(i, u)

ResumeRequest == \E i \in InvestmentIds, u \in Requesters : ResumeInvestment(i, u)

CancelRequest == \E i \in InvestmentIds, u \in Requesters : CancelInvestment(i, u)

\* a fund update request of the administrator that sets the status
UpdateFundRequest ==
  \E f \in FundIds, s \in {"active", "paused", "closed"} : UpdateFund(f, s)

\* one run of processSIPInvestments at a time (the cron tick of a run that has
\* returned), the routes, the fund administration and the clock
Next ==
  \/ Tick
  \/ CreateSIP(MaxInvestments)
  \/ CreateLumpsum(MaxInvestments)
  \/ PauseRequest
  \/ ResumeRequest
  \/ CancelRequest
  \/ UpdateFundRequest
  \/ ProcessSIPInvestments_Select(1)
  \/ ProcessIndividualSIP_Update(1)
  \/ ProcessIndividualSIP_Insert(1)
  \/ ProcessSIPInvestments_Return(1)

Spec == Init /\ [][Next]_vars

\* overlapping runs: a tick fires while the previous invocation is still awaiting
NextOverlap ==
  \/ Tick
  \/ CreateSIP(MaxInvestments)
  \/ \E w \in Runs : ProcessSIPInvestments_Select(w)
  \/ \E w \in Runs : ProcessIndividualSIP_Update(w)
  \/ \E w \in Runs : ProcessIndividualSIP_Insert(w)
  \/ \E w \in Runs : ProcessSIPInvestments_Return(w)

SpecOverlap == Init /\ [][NextOverlap]_vars

\* one run at a time, store calls that may throw, and crashes
NextFaulty ==
  \/ Tick
  \/ CreateSIP(MaxBatch)
  \/ ProcessSIPInvestments_Select(1)
  \/ ProcessIndividualSIP_Update(1)
  \/ ProcessIndividualSIP_Insert(1)
  \/ ProcessSIPInvestments_Return(1)
  \/ ProcessSIPInvestments_SelectThrows(1)
  \/ ProcessIndividualSIP_UpdateThrows(1)
  \/ ProcessIndividualSIP_InsertThrows(1)
  \/ Crash

SpecFaulty == Init /\ [][NextFaulty]_vars

\* a fund delete request of the administrator
DeleteFundRequest ==
  \/ \E f \in FundIds : DeleteFund_Check(f)
  \/ \E f \in FundIds : DeleteFund_Delete(f)

\* an investment is created, executed and cancelled, and its fund is deleted
NextFundDelete ==
  \/ Tick
  \/ CreateDailySIP(MaxInvestments)
  \/ CancelRequest
  \/ DeleteFundRequest
  \/ ProcessSIPInvestments_Select(1)
  \/ ProcessIndividualSIP_Update(1)
  \/ ProcessIndividualSIP_Insert(1)
  \/ ProcessSIPInvestments_Return(1)

SpecFundDelete == Init /\ [][NextFundDelete]_vars

\* the ledger over the months: the SIP executor appends, the sweeper deletes
NextLedger ==
  \/ Wait
  \/ CreateDailySIP(MaxInvestments)
  \/ ProcessSIPInvestments_Select(1)
  \/ ProcessIndividualSIP_Update(1)
  \/ ProcessIndividualSIP_Insert(1)
  \/ ProcessSIPInvestments_Return(1)
  \/ CleanupOldTrades_Delete
  \/ CleanupOldTrades_Return

SpecLedger == Init /\ [][NextLedger]_vars

\* the SIP job over a store that holds recurring investments of any frequency the
\* schema admits
NextStored ==
  \/ Tick
  \/ ProcessSIPInvestments_Select(1)
  \/ ProcessIndividualSIP_Update(1)
  \/ ProcessIndividualSIP_Insert(1)
  \/ ProcessSIPInvestments_Return(1)

SpecStored == InitStored(MaxBatch, {"daily", NoFrequency}) /\ [][NextStored]_vars

\* the three jobs of startSIPScheduler, one invocation of each at a time, with
\* store calls that may throw, over a store that holds due investments
NextJobs ==
  \/ ProcessSIPInvestments_Select(1)
  \/ ProcessIndividualSIP_Update(1)
  \/ ProcessIndividualSIP_Insert(1)
  \/ ProcessSIPInvestments_Return(1)
  \/ ProcessSIPInvestments_SelectThrows(1)
  \/ ProcessIndividualSIP_UpdateThrows(1)
  \/ ProcessIndividualSIP_InsertThrows(1)
  \/ MonitorTraderWallets_Select
  \/ MonitorFundTraderWallets_Skip
  \/ MonitorFundTraderWallets_Select
  \/ MonitorFundTraderWallets_Insert
  \/ MonitorTraderWallets_Return
  \/ MonitorTraderWallets_SelectThrows
  \/ MonitorFundTraderWallets_SelectThrows
  \/ MonitorFundTraderWallets_InsertThrows
  \/ CleanupOldTrades_Delete
  \/ CleanupOldTrades_Return
  \/ CleanupOldTrades_DeleteThrows

SpecJobs == InitStored(MaxInvestments, {"daily"}) /\ [][NextJobs]_vars

\* the wallet monitor, one invocation at a time, with investments being created,
\* paused and cancelled and the fund administration
NextMonitor ==
  \/ CreateDailySIP(MaxBatch)
  \/ PauseRequest
  \/ CancelRequest
  \/ UpdateFundRequest
  \/ MonitorTraderWallets_Select
  \/ MonitorFundTraderWallets_Skip
  \/ MonitorFundTraderWallets_Select
  \/ MonitorFundTraderWallets_Insert
  \/ MonitorTraderWallets_Return

SpecMonitor == Init /\ [][NextMonitor]_vars

\* the process from its start: the stored investments are due while startServer
\* runs, and the three jobs fire once they are scheduled
InitBoot ==
  /\ Stored(MaxInvestments, {"daily"})
  /\ server = Booting
  /\ pool = IdlePool
  /\ setup = NoSetup

NextBoot ==
  \/ InitDatabase_Connects
  \/ InitDatabase_Throws
  \/ StartSIPScheduler
  \/ Listen
  \/ ProcessSIPInvestments_Select(1)
  \/ ProcessIndividualSIP_Update(1)
  \/ ProcessIndividualSIP_Insert(1)
  \/ ProcessSIPInvestments_Return(1)
  \/ MonitorTraderWallets_Select
  \/ MonitorFundTraderWallets_Skip
  \/ MonitorFundTraderWallets_Select
  \/ MonitorFundTraderWallets_Insert
  \/ MonitorTraderWallets_Return
  \/ CleanupOldTrades_Delete
  \/ CleanupOldTrades_Return

SpecBoot == InitBoot /\ [][NextBoot]_vars

\* the query() calls of the three jobs, interleaved
NextPool ==
  \E c \in Callers :
    \/ Query_Connect(c)
    \/ Query_ConnectThrows(c)
    \/ Query_Statement(c)
    \/ Query_StatementThrows(c)
    \/ Query_Release(c)

SpecPool == Init /\ [][NextPool]_vars

\* the owner's pause, resume and cancel requests with the three jobs running,
\* over stored investments that are due
NextStatus ==
  \/ PauseRequest
  \/ ResumeRequest
  \/ CancelRequest
  \/ ProcessSIPInvestments_Select(1)
  \/ ProcessIndividualSIP_Update(1)
  \/ ProcessIndividualSIP_Insert(1)
  \/ ProcessSIPInvestments_Return(1)
  \/ MonitorTraderWallets_Select
  \/ MonitorFundTraderWallets_Skip
  \/ MonitorFundTraderWallets_Select
  \/ MonitorFundTraderWallets_Insert
  \/ MonitorTraderWallets_Return
  \/ CleanupOldTrades_Delete
  \/ CleanupOldTrades_Return

SpecStatus == InitStored(MaxInvestments, {"daily"}) /\ [][NextStatus]_vars

\* requests to GET /setup/database while investments are being created
NextSetup ==
  \/ CreateDailySIP(MaxInvestments)
  \/ \E r \in Requests :
       \/ Setup_InProgress(r)
       \/ Setup_AlreadyCompleted(r)
       \/ Setup_Begin(r)
       \/ Setup_InitDatabase(r)
       \/ Setup_RunMigrations(r)
       \/ Setup_SeedDatabase(r)
       \/ Setup_VerifySetup(r)
       \/ Setup_Throws(r)

SpecSetup == Init /\ [][NextSetup]_vars

\* store calls that eventually succeed: the calls of the SIP job may throw until
\* the clock has reached its last reading
StoreMayFail == now < StartTime + MaxTicks * DAY

SelectThrowsForAWhile == StoreMayFail /\ ProcessSIPInvestments_SelectThrows(1)

UpdateThrowsForAWhile == StoreMayFail /\ ProcessIndividualSIP_UpdateThrows(1)

InsertThrowsForAWhile == StoreMayFail /\ ProcessIndividualSIP_InsertThrows(1)

\* the SIP job with investments being created and cancelled, the clock, and store
\* calls that may throw for a while
NextLive ==
  \/ Tick
  \/ CreateDailySIP(MaxInvestments)
  \/ CancelRequest
  \/ ProcessSIPInvestments_Select(1)
  \/ ProcessIndividualSIP_Update(1)
  \/ ProcessIndividualSIP_Insert(1)
  \/ ProcessSIPInvestments_Return(1)
  \/ SelectThrowsForAWhile
  \/ UpdateThrowsForAWhile
  \/ InsertThrowsForAWhile

\* time passes; cron fires processSIPInvestments whenever no invocation is in
\* flight; an invocation in flight proceeds: each await settles
Fairness ==
  /\ WF_vars(Tick)
  /\ WF_vars(ProcessSIPInvestments_Select(1))
  /\ WF_vars(ProcessIndividualSIP_Update(1) \/ ProcessIndividualSIP_UpdateThrows(1))
  /\ WF_vars(ProcessIndividualSIP_Insert(1) \/ ProcessIndividualSIP_InsertThrows(1))
  /\ WF_vars(ProcessSIPInvestments_Return(1))

SpecLive == Init /\ [][NextLive]_vars /\ Fairness

----------------------------------------------------------------------------
(* Properties *)

\* period(frequency) as the specification states it: 24h, 7d, 30d
ClaimedPeriod(frequency) ==
  CASE frequency = "daily" -> 24 * 60 * 60
    [] frequency = "weekly" -> 7 * 24 * 60 * 60
    [] frequency = "monthly" -> 30 * 24 * 60 * 60

\* the sip_execution rows for investment i appended since run w selected
NewSipRows(w, i) ==
  {t \in ledger : /\ t.id >= hist[w].base
                  /\ t.investment_id = i
                  /\ t.type = "sip_execution"}

\* the step in which run w applies the UPDATE of processIndividualSIP
UpdateStep(w) == run[w].pc = "loop" /\ run'[w].pc = "insert"

\* C1: when a run of processSIPInvestments has finished, every investment it
\* selected (recurring, active, in an active fund, due, with a known frequency)
\* has exactly one new sip_execution row and a next_execution_date strictly
\* greater than the one selected.
C1_OneRowAndLaterDate ==
  \A w \in Runs :
    run[w].pc = "done" =>
      \A r \in run[w].rows :
        r.frequency \in Frequencies =>
          /\ Cardinality(NewSipRows(w, r.id)) = 1
          /\ investments[r.id].next_execution_date > r.next_execution_date

\* a run has finished after processing at least one due investment
C1_Witness == \E w \in Runs : run[w].pc = "done" /\ run[w].rows # {}

\* C2: when two overlapping runs that selected the same due investment (with
\* the same next_execution_date) have both finished, the investment was advanced
\* by one of them only and has exactly one new sip_execution row.
C2_OneAdvanceOneRow ==
  \A w1, w2 \in Runs :
    (w1 # w2 /\ run[w1].pc = "done" /\ run[w2].pc = "done") =>
      \A r \in run[w1].rows \cap run[w2].rows :
        /\ ~(r.id \in hist[w1].advanced /\ r.id \in hist[w2].advanced)
        /\ Cardinality(NewSipRows(w1, r.id) \cup NewSipRows(w2, r.id)) = 1

\* C3: once the processing of a due investment has ended (normally, by a failed
\* write, or by a crash between the writes), the schedule was advanced by it if
\* and only if a sip_execution row was appended for it.
C3_UpdateAndInsertAtomic ==
  \A w \in Runs :
    hist[w].item.ended =>
      (hist[w].item.updated <=> NewSipRows(w, hist[w].item.id) # {})

\* C4 as stated: the executor's UPDATE leaves next_execution_date at the selected
\* value T plus exactly one period.
C4_ExactlyOnePeriodFromT ==
  [][\A w \in Runs :
       UpdateStep(w) =>
         LET i == run'[w].cur
             r == RowOf(w, i)
         IN investments'[i].next_execution_date =
              r.next_execution_date + ClaimedPeriod(r.frequency)]_vars

\* C4 as amended: the executor's UPDATE leaves next_execution_date at least one
\* period after the selected value T, and exactly one period after it only when
\* the executor's clock reads T.
C4_AtLeastOnePeriodFromT ==
  [][\A w \in Runs :
       UpdateStep(w) =>
         LET i == run'[w].cur
             r == RowOf(w, i)
             T == r.next_execution_date
             next == investments'[i].next_execution_date
         IN /\ next >= T + ClaimedPeriod(r.frequency)
            /\ (next = T + ClaimedPeriod(r.frequency) <=> now = T)]_vars

\* an investment was processed later than its next_execution_date
C4_Witness ==
  \E w \in Runs :
    /\ run[w].pc = "insert"
    /\ LET r == RowOf(w, run[w].cur)
       IN run[w].nextExecution > r.next_execution_date + ClaimedPeriod(r.frequency)

\* C5: the executor's UPDATE persists the clock reading plus 24h, 7d or 30d,
\* by frequency.
C5_NowPlusPeriod ==
  [][\A w \in Runs :
       UpdateStep(w) =>
         LET i == run'[w].cur
         IN investments'[i].next_execution_date =
              now + ClaimedPeriod(RowOf(w, i).frequency)]_vars

\* a monthly investment has just been advanced in a month of 31 days
C5_Witness ==
  \E w \in Runs :
    /\ run[w].pc = "insert"
    /\ RowOf(w, run[w].cur).frequency = "monthly"
    /\ investments[run[w].cur].next_execution_date = run[w].nextExecution
    /\ SetMonthPlusOne(now) # now + 30 * DAY

\* C6: next_execution_date is non-null exactly for the recurring investments
\* whose status is active.
C6_NextDateIffActiveRecurring ==
  \A i \in InvestmentIds :
    investments[i].next_execution_date # NULL
      <=> (investments[i].type = "sip" /\ investments[i].status = "active")

\* C7: a due-selection made while a recurring investment is paused and overdue
\* does not return it, and the run appends no sip_execution row for it.
C7_PausedNotSelected ==
  \A w \in Runs :
    \A i \in hist[w].overduePaused :
      /\ \A r \in run[w].rows : r.id # i
      /\ NewSipRows(w, i) = {}

\* a run selected while an overdue recurring investment was paused, and finished
C7_Witness == \E w \in Runs : run[w].pc = "done" /\ hist[w].overduePaused # {}

\* C8: resume sets status active and next_execution_date to the clock reading
\* plus 24h, 7d or 30d, by frequency.
C8_ResumeNowPlusPeriod ==
  [][\A i \in InvestmentIds :
       (investments[i].status = "paused" /\ investments'[i].status = "active") =>
         investments'[i].next_execution_date =
           now + ClaimedPeriod(investments[i].frequency)]_vars

\* C9: an investment that is cancelled when the executor comes to process it is
\* skipped: no UPDATE of its schedule, no sip_execution row.
C9_CancelledSkipped ==
  \A w \in Runs :
    hist[w].item.status = "cancelled" =>
      /\ ~hist[w].item.updated
      /\ NewSipRows(w, hist[w].item.id) = {}

\* C10: when a run in which the processing of some investment threw has
\* finished, every other investment it selected has exactly one new
\* sip_execution row and a later next_execution_date.
C10_OthersStillProcessed ==
  \A w \in Runs :
    (run[w].pc = "done" /\ hist[w].failed # {}) =>
      \A r \in run[w].rows :
        r.id \notin hist[w].failed =>
          /\ Cardinality(NewSipRows(w, r.id)) = 1
          /\ investments[r.id].next_execution_date > r.next_execution_date

\* a run has finished in which one investment failed and another was processed
C10_Witness ==
  \E w \in Runs :
    /\ run[w].pc = "done"
    /\ hist[w].failed # {}
    /\ \E r \in run[w].rows : r.id \notin hist[w].failed

\* the trade_replication rows for investment i appended since the monitor
\* selected the investments of the fund in hand
NewReplications(i) ==
  {t \in ledger : /\ t.id >= monitor.base
                  /\ t.investment_id = i
                  /\ t.type = "trade_replication"}

\* the monitor has gone through all the investments it selected for a fund
MonitorPassDone ==
  monitor.pc \in {"funds", "done"} /\ monitor.cur # 0 /\ monitor.todo = {}

\* C11: when the monitor has created the mock trades of an active fund with a
\* trader wallet, every investment of the fund that was active when it selected
\* has exactly one new trade_replication row, buy or sell, with an amount from 0
\* to the investment's amount, and the paused and cancelled ones have none.
C11_OneReplicationPerActive ==
  MonitorPassDone =>
    /\ \A r \in monitor.rows :
         /\ Cardinality(NewReplications(r.id)) = 1
         /\ \A t \in NewReplications(r.id) :
              /\ t.trade_type \in {"buy", "sell"}
              /\ t.fund_id = monitor.cur
              /\ t.amount >= 0
              /\ t.amount <= investments[r.id].amount
    /\ \A i \in monitor.others : NewReplications(i) = {}

\* the monitor has finished a fund with an active investment and one that is
\* paused or cancelled
C11_Witness ==
  /\ MonitorPassDone
  /\ monitor.rows # {}
  /\ monitor.others # {}

\* the step in which the sweeper's DELETE is applied
CleanupStep == sweeper.pc = "idle" /\ sweeper'.pc = "done" /\ ~sweeper'.failed

\* C12: a sweeper run started on the ledger a sweeper run has just left, at the
\* same clock reading, deletes zero rows and leaves that ledger as it is.
C12_SecondCleanupDeletesNothing ==
  [][CleanupStep =>
       /\ AfterCleanup(ledger', now') = ledger'
       /\ Cardinality(ledger') - Cardinality(AfterCleanup(ledger', now')) = 0]_vars

\* a sweeper run has deleted rows and kept others, and the clock has not moved
C12_Witness ==
  /\ sweeper.pc = "done"
  /\ sweeper.at = now
  /\ sweeper.deleted > 0
  /\ ledger # {}

\* C13: after the sweeper's DELETE at clock reading now, no row with executed_at
\* before now - 90 days remains, and every row with executed_at at or after
\* now - 90 days is still there, unchanged.
C13_CleanupRemovesExactlyTheOld ==
  [][CleanupStep =>
       /\ \A t \in ledger' : t.executed_at >= now - 90 * 24 * 60 * 60
       /\ \A t \in ledger : t.executed_at >= now - 90 * 24 * 60 * 60 => t \in ledger']_vars

\* the sweeper has just deleted a row and kept one that is exactly 90 days old
C13_Witness ==
  /\ sweeper.pc = "done"
  /\ sweeper.deleted > 0
  /\ sweeper.at = now
  /\ \E t \in ledger : t.executed_at = now - 90 * 24 * 60 * 60

\* C14: a ledger row, once created, stays as it is in every step but the
\* sweeper's DELETE.
C14_LedgerAppendOnly ==
  [][\A t \in ledger : t \in ledger' \/ CleanupStep]_vars

\* the step in which run w applies the due-SIP SELECT
SelectStep(w) == run[w].pc = "idle" /\ run'[w].pc \in {"loop", "done"}

\* C15: the due-SIP selection returns the investments that are recurring, active,
\* with a non-null next_execution_date not after now, in an active fund, each
\* once and no other, and changes no investment, fund or ledger row.
C15_SelectionExact ==
  [][\A w \in Runs :
       SelectStep(w) =>
         /\ {r.id : r \in run'[w].rows} =
              {i \in InvestmentIds :
                 /\ investments[i].type = "sip"
                 /\ investments[i].status = "active"
                 /\ investments[i].next_execution_date # NULL
                 /\ investments[i].next_execution_date <= now
                 /\ investments[i].fund_id \in DOMAIN funds
                 /\ funds[investments[i].fund_id].status = "active"}
         /\ \A r1, r2 \in run'[w].rows : r1.id = r2.id => r1 = r2
         /\ \A r \in run'[w].rows :
              /\ r.amount = investments[r.id].amount
              /\ r.fund_id = investments[r.id].fund_id
              /\ r.next_execution_date = investments[r.id].next_execution_date
         /\ UNCHANGED <<investments, funds, ledger>>]_vars

\* a selection has returned an investment
C15_Witness == \E w \in Runs : run[w].pc = "loop" /\ run[w].rows # {}

\* the step in which run w applies the INSERT of processIndividualSIP
InsertStep(w) == run[w].pc = "insert" /\ ledger' # ledger

\* C16: the row the executor appends is one row of type sip_execution and status
\* completed, for the processed investment and its fund, with the investment's
\* amount and a generated, non-null signature.
C16_SipExecutionRow ==
  [][\A w \in Runs :
       InsertStep(w) =>
         /\ ledger \subseteq ledger'
         /\ Cardinality(ledger' \ ledger) = 1
         /\ \A t \in ledger' \ ledger :
              /\ t.type = "sip_execution"
              /\ t.status = "completed"
              /\ t.investment_id = run[w].cur
              /\ t.fund_id = investments[run[w].cur].fund_id
              /\ t.amount = investments[run[w].cur].amount
              /\ t.tx_signature # "null"
              /\ t.tx_signature \in Signatures]_vars

\* the executor has appended a row
C16_Witness == \E t \in ledger : t.type = "sip_execution"

\* C18: the executor applies its UPDATE (and then its INSERT) to a selected
\* investment only while the investment's fund is active; an investment whose
\* fund was deactivated after the selection is skipped.
C18_DeactivatedFundSkipped ==
  [][\A w \in Runs :
       UpdateStep(w) =>
         funds[RowOf(w, run'[w].cur).fund_id].status = "active"]_vars

\* C19: an investment whose processing failed on a store write is not taken up
\* again by the same run, and is still due, so that the next run selects it.
C19_FailedIsRetriedNextCycle ==
  \A w \in Runs :
    \A i \in hist[w].failed :
      /\ i \notin run[w].todo
      /\ IsDue(i)

\* C17: a store call that throws inside a tick of the SIP job, the monitor or
\* the sweeper is caught inside the tick: no invocation is ever left as a
\* rejected promise, every job is at a point of its own code from which it runs
\* on to its return, and a finished tick leaves the job ready for the next one.
C17_FailuresCaughtInTick ==
  /\ \A w \in Runs : run[w].pc \in {"idle", "loop", "insert", "done"}
  /\ monitor.pc \in {"idle", "funds", "insert", "done"}
  /\ sweeper.pc \in {"idle", "done"}
  /\ (run[1].pc = "done" => ENABLED ProcessSIPInvestments_Return(1))
  /\ (monitor.pc = "done" => ENABLED MonitorTraderWallets_Return)
  /\ (sweeper.pc = "done" => ENABLED CleanupOldTrades_Return)
  /\ (sweeper.pc = "idle" => ENABLED CleanupOldTrades_Delete)
  /\ (run[1].pc = "idle" => ENABLED ProcessSIPInvestments_Select(1))

\* a tick of each of the three jobs has ended through its catch, and the sweeper
\* has returned from its failed tick
C17_Witness ==
  /\ run[1].pc = "done" /\ hist[1].failed # {}
  /\ monitor.pc = "done" /\ monitor.failed
  /\ sweeper.pc = "idle" /\ sweeper.failed

\* C20: when a run has finished, a selected investment whose frequency is null
\* or unknown has its next_execution_date unchanged, no sip_execution row and no
\* error recorded, and every other selected investment has been processed.
C20_UnknownFrequencySkipped ==
  \A w \in Runs :
    run[w].pc = "done" =>
      \A r \in run[w].rows :
        IF r.frequency \in {"daily", "weekly", "monthly"}
        THEN /\ Cardinality(NewSipRows(w, r.id)) = 1
             /\ investments[r.id].next_execution_date > r.next_execution_date
        ELSE /\ investments[r.id].next_execution_date = r.next_execution_date
             /\ NewSipRows(w, r.id) = {}
             /\ r.id \notin hist[w].failed

\* a run has finished that selected an investment without frequency and a daily one
C20_Witness ==
  \E w \in Runs :
    /\ run[w].pc = "done"
    /\ \E r \in run[w].rows : r.frequency = NoFrequency
    /\ \E r \in run[w].rows : r.frequency = "daily"

\* no job invocation is in flight and none has left a trace
NoTickRan ==
  /\ \A w \in Runs : run[w] = IdleRun /\ hist[w] = NoHist
  /\ monitor = IdleMonitor
  /\ sweeper = IdleSweeper
  /\ ledger = {}
  /\ \A i \in InvestmentIds : investments[i].next_execution_date = StartTime

\* C21: when initDatabase fails at boot the process exits with the scheduler
\* never started: no SIP, monitor or cleanup tick has run and the server does
\* not listen; the scheduler is started, and the server listens, only after
\* initDatabase has succeeded.
C21_NoSchedulerWithoutStore ==
  /\ server.pc = "exited" =>
        ~server.database /\ ~server.scheduler /\ ~server.listening /\ NoTickRan
  /\ server.scheduler => server.database
  /\ server.listening => server.database /\ server.scheduler
  /\ ~server.scheduler => NoTickRan

\* initDatabase has failed and the process has exited while an investment is due
C21_Witness ==
  /\ server.pc = "exited"
  /\ \E i \in InvestmentIds : IsDue(i)

\* C22: no backfill.  A cycle executes an investment once however long it has
\* been overdue: the step that advances it leaves it not due at the current
\* clock, so that no cycle starting before the new next_execution_date selects
\* it, and when the cycle has finished the investment has one new
\* sip_execution row.
C22_NoBackfill ==
  [][\A w \in Runs :
       /\ UpdateStep(w) =>
            investments'[run'[w].cur].next_execution_date > now'
       /\ (run[w].pc # "done" /\ run'[w].pc = "done") =>
            \A r \in run'[w].rows :
              r.frequency \in Frequencies =>
                /\ Cardinality({t \in ledger' : /\ t.id >= hist'[w].base
                                                 /\ t.investment_id = r.id
                                                 /\ t.type = "sip_execution"}) = 1
                /\ investments'[r.id].next_execution_date
                     >= r.next_execution_date + ClaimedPeriod(r.frequency)]_vars

\* a cycle has finished that executed an investment more than one period overdue
C22_Witness ==
  \E w \in Runs :
    /\ run[w].pc = "done"
    /\ \E r \in run[w].rows :
         /\ r.frequency = "daily"
         /\ Cardinality(NewSipRows(w, r.id)) = 1
         /\ investments[r.id].next_execution_date - DAY
              > r.next_execution_date + ClaimedPeriod("daily")

\* C23: a query() call checks out one client, runs one statement and releases
\* the client once, whether the statement succeeds or throws: a caller holds one
\* client from pool.connect to the finally block and none between two calls or
\* after its last call.
C23_CheckoutPerOperation ==
  \A c \in Callers :
    LET q == pool[c]
    IN /\ q.held \in {0, 1} /\ q.statements \in {0, 1} /\ q.released \in {0, 1}
       /\ q.pc = "idle" => q.held = 0 /\ q.released = q.statements
       /\ q.pc = "try" => q.held = 1 /\ q.statements = 0 /\ q.released = 0
       /\ q.pc = "finally" => q.held = 1 /\ q.statements = 1 /\ q.released = 0

\* a caller is between two calls after a statement that threw, another after a
\* statement that succeeded, and a third is inside a call
C23_Witness ==
  \E c, d, x \in Callers :
    /\ pool[c].pc = "idle" /\ pool[c].threw /\ pool[c].released = 1
    /\ pool[d].pc = "idle" /\ ~pool[d].threw /\ pool[d].released = 1
    /\ pool[x].pc = "try"

\* C24: cancelled is terminal.  No pause, resume, cancel, SIP, monitor or cleanup
\* step changes the status of a cancelled investment, and pause, resume and
\* cancel answer 404 for it whoever asks.
C24_CancelledIsTerminal ==
  [][\A i \in InvestmentIds :
       investments[i].status = "cancelled" =>
         /\ i \in DOMAIN investments'
         /\ investments'[i].status = "cancelled"
         /\ \A u \in Requesters :
              /\ PauseStatus(i, u) = 404
              /\ ResumeStatus(i, u) = 404
              /\ CancelStatus(i, u) = 404]_vars

\* a SIP cycle, a monitor pass and a cleanup have finished over an investment that
\* was cancelled after the SIP cycle had selected it
C24_Witness ==
  /\ \E i \in InvestmentIds :
       /\ investments[i].status = "cancelled"
       /\ \E r \in run[1].rows : r.id = i
  /\ run[1].pc = "done"
  /\ monitor.pc = "done"
  /\ sweeper.pc = "done"

\* C25: pause changes an investment only when it is recurring and active and the
\* requester owns it, resume only when it is recurring and paused and the
\* requester owns it; every other pause or resume is answered 404, and the
\* schedule of an active investment moves only when a SIP cycle executes it.
C25_PauseResumeGuards ==
  [][\A i \in InvestmentIds :
       LET inv == investments[i]
       IN /\ \A u \in Requesters :
               /\ PauseStatus(i, u) = 200 <=>
                    inv.user_id = u /\ inv.type = "sip" /\ inv.status = "active"
               /\ ResumeStatus(i, u) = 200 <=>
                    inv.user_id = u /\ inv.type = "sip" /\ inv.status = "paused"
          /\ i \in DOMAIN investments' =>
               /\ (inv.status # "paused" /\ investments'[i].status = "paused") =>
                    inv.type = "sip" /\ inv.status = "active"
               /\ (inv.status # "active" /\ investments'[i].status = "active") =>
                    inv.type = "sip" /\ inv.status = "paused"
               /\ (inv.status # "paused" /\ investments'[i].next_execution_date
                                              # inv.next_execution_date) =>
                    \E w \in Runs : UpdateStep(w) /\ run'[w].cur = i]_vars

\* an active weekly investment created a day ago and due now: a resume would move
\* its schedule by a week and is refused, as is a pause by a user who does not
\* own it
C25_Witness ==
  \E i \in InvestmentIds :
    /\ investments[i].status = "active"
    /\ investments[i].type = "sip"
    /\ investments[i].frequency = "weekly"
    /\ investments[i].next_execution_date = now
    /\ now = StartTime + 2 * DAY
    /\ \A u \in Requesters : ResumeStatus(i, u) = 404
    /\ PauseStatus(i, 2) = 404
    /\ PauseStatus(i, investments[i].user_id) = 200

\* C26: at most one setup run is in progress, and setupInProgress says whether one
\* is; while one runs, a request is answered setup_in_progress and starts
\* nothing; after a successful run a request is answered already_completed and
\* starts nothing; setupCompleted is true only when the run finished
\* runMigrations, seedDatabase and verifySetup; after a failed run a request can
\* start a run again.
C26_OneSetupAtATime ==
  LET running == {r \in Requests : setup.pc[r] # "idle"}
      waiting == Requests \ running
  IN /\ Cardinality(running) <= 1
     /\ setup.inProgress <=> running # {}
     /\ setup.completed => setup.done = SetupSteps
     /\ \A r \in Requests : setup.answer[r] = "success" => setup.completed
     /\ \A r \in waiting :
          /\ ENABLED Setup_InProgress(r) <=> setup.inProgress
          /\ ENABLED Setup_AlreadyCompleted(r) <=>
                ~setup.inProgress /\ setup.completed
          /\ ENABLED Setup_Begin(r) <=> ~setup.inProgress /\ ~setup.completed

\* a request was turned away with setup_in_progress while the run of another is
\* at its last step
C26_Witness ==
  \E r, q \in Requests :
    /\ setup.pc[r] = "verifySetup"
    /\ setup.answer[q] = "setup_in_progress"
    /\ setup.inProgress

\* C27: creating a one-time investment is all-or-nothing: whenever no create is
\* in progress, every lumpsum investment row has exactly one completed ledger row
\* of type investment with its amount.
C27_LumpsumAllOrNothing ==
  \A i \in InvestmentIds :
    investments[i].type = "lumpsum" =>
      Cardinality({t \in ledger : /\ t.investment_id = i
                                  /\ t.type = "investment"
                                  /\ t.status = "completed"
                                  /\ t.amount = investments[i].amount}) = 1

\* C28: no step removes an active investment: the deletion of a fund, however it
\* interleaves with the creation of investments on that fund, never takes an
\* active investment with it.
C28_ActiveNeverCascaded ==
  [][\A i \in InvestmentIds :
       investments[i].status = "active" => i \in DOMAIN investments']_vars

\* C29: a step of the SIP job changes no fund and, of the investments, only the
\* next_execution_date of investments its cycle selected; a step of the wallet
\* monitor or of the cleanup changes no investment and no fund.
C29_JobsChangeOnlyTheirTarget ==
  [][/\ \A w \in Runs :
          run'[w] # run[w] =>
            /\ funds' = funds
            /\ DOMAIN investments' = DOMAIN investments
            /\ \A i \in InvestmentIds :
                 \/ investments'[i] = investments[i]
                 \/ /\ \E r \in run[w].rows : r.id = i
                    /\ investments'[i] =
                         [investments[i] EXCEPT !.next_execution_date =
                                                  investments'[i].next_execution_date]
     /\ (monitor' # monitor \/ sweeper' # sweeper) =>
          investments' = investments /\ funds' = funds]_vars

\* the SIP job has advanced an investment that was paused or cancelled after the
\* cycle selected it, and the monitor and the cleanup have run as well
C29_Witness ==
  /\ run[1].pc = "done"
  /\ \E r \in run[1].rows :
       /\ investments[r.id].status # "active"
       /\ investments[r.id].next_execution_date > r.next_execution_date
  /\ monitor.pc = "done" /\ ledger # {}
  /\ sweeper.pc = "done"

\* the investment i is active in an active fund, recurring, and due since d
DueSince(i, d) ==
  /\ i \in InvestmentIds
  /\ IsDue(i)
  /\ investments[i].frequency \in Frequencies
  /\ investments[i].next_execution_date = d

\* the investment i has been executed at or after d: its date lies after the
\* clock and a sip_execution row records an execution at or after d
ExecutedSince(i, d) ==
  /\ i \in InvestmentIds
  /\ investments[i].next_execution_date > now
  /\ \E t \in ledger : /\ t.investment_id = i
                        /\ t.type = "sip_execution"
                        /\ t.executed_at >= d

\* C30: with the SIP tick firing fairly and store calls that eventually succeed,
\* a recurring investment with a valid frequency that is due is eventually
\* executed (date advanced, sip_execution row appended) unless it stops being
\* active.
C30_DueIsEventuallyExecuted ==
  \A i \in 1..MaxInvestments :
    \A k \in 0..(MaxTicks + 1) :
      DueSince(i, StartTime + k * DAY)
        ~> (\/ ExecutedSince(i, StartTime + k * DAY)
            \/ i \in InvestmentIds /\ investments[i].status # "active")

\* an investment created at the start and due since the next day has been
\* executed on the day after, at the last clock reading
C30_Witness ==
  \E i \in InvestmentIds :
    /\ ExecutedSince(i, StartTime + DAY)
    /\ investments[i].status = "active"
    /\ Cardinality({t \in ledger : t.investment_id = i}) = 1
    /\ investments[i].next_execution_date = StartTime + 3 * DAY
    /\ nextInvestmentId = 2
    /\ hist[1].failed = {}

====
